---------------------------- MODULE Spec2Model ----------------------------
(***************************************************************************)
(* A model of github.com/sv-tools/conf: the configuration registry of      *)
(* conf.go (storage, defaults, readers, transformers), its loader and      *)
(* flattener (Load, scan), and the resolution pipeline of Get.             *)
(*                                                                         *)
(* Spec      the API called by one goroutine: every method is one action.  *)
(* ConcSpec  Get, Set, SetDefault, Keys and Reset called by concurrent     *)
(*           goroutines: every sync.Map access and the pointer swap of     *)
(*           Reset is one step.                                            *)
(* BoolSpec  GetBool of the values of its test, with tokens added to the   *)
(*           package variable BoolValues.                                  *)
(* GlobalSpec  the package-level functions, the registry of GlobalConf()   *)
(*           and a registry made by New().                                 *)
(* FrameSpec the accessors and the two setters called with two keys, to    *)
(*           compare the registry before and after each call.              *)
(* LoadSpec  Load run step by step by one goroutine: its Reset, every Read *)
(*           and every Store of scan is one step, and a call that has      *)
(*           begun keeps running.                                          *)
(***************************************************************************)
EXTENDS Integers, Sequences, FiniteSets, Bags, TLC

VARIABLES
    heap,          \* the sync.Map objects allocated for c.storage: id -> contents
    storage,       \* c.storage: the id of the current overrides map
    defaults,      \* c.defaults: contents of the defaults map (never replaced)
    readers,       \* c.readers
    transformers,  \* c.transformers
    ret,           \* Spec: what the last call did and returned
    written,       \* Spec, history: the value last stored per key, by Set/Load and by SetDefault
                   \* (GlobalSpec: in the registry of globalConf, and the path of the last store)
    th,            \* ConcSpec: per goroutine, the call in progress and its locals
    BoolValues,    \* the package variable BoolValues
    globalConf,    \* GlobalSpec: the package variable globalConf, the id of a registry
    confs,         \* GlobalSpec: the registries made by New(): id -> fields
    handles        \* GlobalSpec: the registries the caller got from GlobalConf() and New()

\* the package variables and what GlobalSpec adds to them
pkg == <<BoolValues, globalConf, confs, handles>>

vars == <<heap, storage, defaults, readers, transformers, ret, written, th, pkg>>

----------------------------------------------------------------------------
(* Go values (interface{}), as far as the registry looks at them: the kind *)
(* reflect reports, and the payload.                                       *)

Nil == [kind |-> "nil"]
IntV(n) == [kind |-> "int", int |-> n]
StrV(s) == [kind |-> "string", str |-> s]
BoolV(b) == [kind |-> "bool", bool |-> b]
\* a Go map with key type ktype; m is a function from key values to values
MapV(ktype, m) == [kind |-> "map", ktype |-> ktype, map |-> m]
SliceV(s) == [kind |-> "slice", elems |-> s]

\* Go errors: nil, a package variable made by errors.New (the variable is its
\* identity), or what fmt.Errorf makes of a format with %w and an error
NoErr == [var |-> "nil"]
errorsNew(var, text) == [var |-> var, text |-> text]
Errorf(text, err) == [text |-> text \o err.text, unwrap |-> err]
RECURSIVE errorsIs(_, _)
errorsIs(err, target) ==
    \/ err = target
    \/ "unwrap" \in DOMAIN err /\ errorsIs(err.unwrap, target)

errFake == errorsNew("errFake", "fake error")

----------------------------------------------------------------------------
(* sync.Map, as a function from keys to values.                            *)

EmptyMap == <<>>
MapLoad(m, key) == IF key \in DOMAIN m THEN [value |-> m[key], ok |-> TRUE]
                   ELSE [value |-> Nil, ok |-> FALSE]
MapStore(m, key, value) == (key :> value) @@ m
MapDelete(m, key) == [k \in DOMAIN m \ {key} |-> m[k]]

\* the contents of the map c.storage points to
Overrides == heap[storage]

----------------------------------------------------------------------------
(* strconv.Itoa for i >= 0.                                                *)

Digit(d) == CASE d = 0 -> "0" [] d = 1 -> "1" [] d = 2 -> "2" [] d = 3 -> "3"
              [] d = 4 -> "4" [] d = 5 -> "5" [] d = 6 -> "6" [] d = 7 -> "7"
              [] d = 8 -> "8" [] d = 9 -> "9"

RECURSIVE Itoa(_)
Itoa(i) == IF i < 10 THEN Digit(i) ELSE Itoa(i \div 10) \o Digit(i % 10)

(* reflect.Value.String() of a map key: the string itself for a key of     *)
(* kind String, "<T Value>" for a key of any other type T.                 *)
KeyString(ktype, k) == IF ktype = "string" THEN k.str ELSE "<" \o ktype \o " Value>"

----------------------------------------------------------------------------
(* conf.scan: the stores it performs, in order.  A Go map is ranged over   *)
(* in an unspecified order, so a value yields a set of store sequences.    *)

RECURSIVE scan(_, _), scanMap(_, _, _), scanSlice(_, _, _)

\* scan storing at the leaves only, not the composite values
scanLeaves(data, key) ==
    LET stores == IF key # "" THEN <<[key |-> key, value |-> data]>> ELSE <<>>
        base == IF key # "" THEN key \o "." ELSE key
    IN  CASE data.kind = "map" -> scanMap(data, DOMAIN data.map, base)
          [] data.kind = "slice" -> scanSlice(data.elems, 0, base)
          [] OTHER -> {stores}

\* scan storing also under the empty key
scanEmptyKey(data, key) ==
    LET stores == <<[key |-> key, value |-> data]>>
        base == IF key # "" THEN key \o "." ELSE key
    IN  CASE data.kind = "map" ->
               {stores \o w : w \in scanMap(data, DOMAIN data.map, base)}
          [] data.kind = "slice" ->
               {stores \o w : w \in scanSlice(data.elems, 0, base)}
          [] OTHER -> {stores}

scan(data, key) ==
    LET stores == IF key # "" THEN <<[key |-> key, value |-> data]>> ELSE <<>>
        base == IF key # "" THEN key \o "." ELSE key
    IN  CASE data.kind = "map" ->
               {stores \o w : w \in scanMap(data, DOMAIN data.map, base)}
          [] data.kind = "slice" ->
               {stores \o w : w \in scanSlice(data.elems, 0, base)}
          [] OTHER -> {stores}

\* the entries of data not yet visited by the MapRange iterator
scanMap(data, todo, base) ==
    IF todo = {} THEN {<<>>}
    ELSE UNION {{w1 \o w2 : w1 \in scan(data.map[k], base \o KeyString(data.ktype, k)),
                            w2 \in scanMap(data, todo \ {k}, base)} : k \in todo}

scanSlice(elems, i, base) ==
    IF i >= Len(elems) THEN {<<>>}
    ELSE {w1 \o w2 : w1 \in scan(elems[i + 1], base \o Itoa(i)),
                     w2 \in scanSlice(elems, i + 1, base)}

\* c.storage.Store for each store of w, in order
RECURSIVE StoreAll(_, _)
StoreAll(m, w) == IF w = <<>> THEN m
                  ELSE StoreAll(MapStore(m, Head(w).key, Head(w).value), Tail(w))


----------------------------------------------------------------------------
(* Readers.  testReader of the tests: Read returns its data and its err.   *)

testReader(prefix, data, err) == [prefix |-> prefix, data |-> data, err |-> err]
Prefix(reader) == reader.prefix

StrMap(m) == MapV("string", [k \in {StrV(s) : s \in DOMAIN m} |-> m[k.str]])

\* parser.go.  A stream is nil, an io.Reader such as the bytes.Reader of the
\* tests, or an io.Reader that is an io.Closer too, whose Close returns
\* closeErr.  A ParseFunc is nil or a function: testParseFuncError of the tests,
\* or one that returns the map the tests decode from "foo:1;bar:2".
ErrNoParser == errorsNew("ErrNoParser", "no parser")
ErrNoStream == errorsNew("ErrNoStream", "no data stream")
errClose == errorsNew("errClose", "close error")

NilStream == [kind |-> "nil"]
bytesReader == [kind |-> "io.Reader"]
closerStream(closeErr) == [kind |-> "io.ReadCloser", closeErr |-> closeErr]
NilParseFunc == [func |-> "nil"]
testParseFunc == [func |-> "testParseFunc"]
testParseFuncError == [func |-> "testParseFuncError"]
dataParsed == StrMap(("foo" :> StrV("1")) @@ ("bar" :> StrV("2")))

\* p.parser(ctx, p.stream)
ParseFunc(f, stream) ==
    IF f = testParseFuncError THEN [data |-> Nil, err |-> errFake]
    ELSE [data |-> dataParsed, err |-> NoErr]

NewStreamParser(stream) == [stream |-> stream, parser |-> NilParseFunc, prefix |-> ""]
WithParser(p, f) == [p EXCEPT !.parser = f]
WithPrefix(p, prefix) == [p EXCEPT !.prefix = prefix]
\* os.Open succeeds (opened) or not
NewFileParser(opened) ==
    IF opened THEN [p |-> NewStreamParser(closerStream(NoErr)), err |-> NoErr]
    ELSE [p |-> Nil, err |-> Errorf("failed to open file: ", errorsNew("ErrNotExist", "file does not exist"))]

\* parser.Read deciding on the decode function before the stream
parserReadParserFirst(p) ==
    IF p.parser = NilParseFunc THEN [data |-> Nil, err |-> ErrNoParser, events |-> <<>>]
    ELSE IF p.stream = NilStream THEN [data |-> Nil, err |-> ErrNoStream, events |-> <<>>]
    ELSE LET r == ParseFunc(p.parser, p.stream)
         IN  IF r.err # NoErr
             THEN [data |-> Nil, err |-> Errorf("parser conf.ParseFunc failed: ", r.err),
                   events |-> <<"parse">>]
             ELSE IF p.stream.kind = "io.ReadCloser"
             THEN IF p.stream.closeErr # NoErr
                  THEN [data |-> Nil, err |-> Errorf("failed to close stream: ", p.stream.closeErr),
                        events |-> <<"parse", "close">>]
                  ELSE [data |-> r.data, err |-> NoErr, events |-> <<"parse", "close">>]
             ELSE [data |-> r.data, err |-> NoErr, events |-> <<"parse">>]

\* parser.Read returning the decoded data whatever Close returns
parserReadIgnoreClose(p) ==
    IF p.stream = NilStream THEN [data |-> Nil, err |-> ErrNoStream, events |-> <<>>]
    ELSE IF p.parser = NilParseFunc THEN [data |-> Nil, err |-> ErrNoParser, events |-> <<>>]
    ELSE LET r == ParseFunc(p.parser, p.stream)
         IN  IF r.err # NoErr
             THEN [data |-> Nil, err |-> Errorf("parser conf.ParseFunc failed: ", r.err),
                   events |-> <<"parse">>]
             ELSE IF p.stream.kind = "io.ReadCloser"
             THEN [data |-> r.data, err |-> NoErr, events |-> <<"parse", "close">>]
             ELSE [data |-> r.data, err |-> NoErr, events |-> <<"parse">>]

\* parser.Read: the data and the error returned, and the calls made on the
\* way, "parse" of the decode function and "close" of the stream
parserRead(p) ==
    IF p.stream = NilStream THEN [data |-> Nil, err |-> ErrNoStream, events |-> <<>>]
    ELSE IF p.parser = NilParseFunc THEN [data |-> Nil, err |-> ErrNoParser, events |-> <<>>]
    ELSE LET r == ParseFunc(p.parser, p.stream)
         IN  IF r.err # NoErr
             THEN [data |-> Nil, err |-> Errorf("parser conf.ParseFunc failed: ", r.err),
                   events |-> <<"parse">>]
             ELSE IF p.stream.kind = "io.ReadCloser"
             THEN IF p.stream.closeErr # NoErr
                  THEN [data |-> Nil, err |-> Errorf("failed to close stream: ", p.stream.closeErr),
                        events |-> <<"parse", "close">>]
                  ELSE [data |-> r.data, err |-> NoErr, events |-> <<"parse", "close">>]
             ELSE [data |-> r.data, err |-> NoErr, events |-> <<"parse">>]

\* reader.Read(ctx), of a testReader or of a parser
IsParser(reader) == "stream" \in DOMAIN reader
Read(reader) ==
    IF IsParser(reader) THEN parserRead(reader)
    ELSE [data |-> reader.data, err |-> reader.err, events |-> <<>>]

\* the raw values the readers of the model return
data2 == StrV("scalar")
data3 == IntV(34)
data4 == SliceV(<<IntV(1), StrV("2")>>)
dataTree == StrMap("a" :> StrMap("b" :> SliceV(<<StrMap("c" :> IntV(1)),
                                                  StrMap("d" :> IntV(2))>>)))
dataDotted == StrMap(("a.b" :> IntV(1)) @@ ("a" :> StrMap("b" :> IntV(2))))
dataEmptyKey == StrMap("" :> StrMap("a" :> IntV(1)))
dataIntKeys == MapV("int", (IntV(1) :> StrV("one")) @@ (IntV(2) :> StrV("two")))
\* an empty map, an empty sequence, and the dotted key of data1 of the tests
dataEmpty == StrMap(("m" :> StrMap(<<>>)) @@ ("l" :> SliceV(<<>>)) @@ ("x.y.z" :> StrV("xyz")))

rX == testReader("x", StrMap("a" :> IntV(1)), NoErr)
rFail == testReader("", Nil, errFake)
rY == testReader("y", data4, NoErr)
rScalar == testReader("p", data2, NoErr)
rBare == testReader("", data3, NoErr)
rTree == testReader("", dataTree, NoErr)
rDotted == testReader("", dataDotted, NoErr)
rEmptyKey == testReader("", dataEmptyKey, NoErr)
rIntKeys == testReader("m", dataIntKeys, NoErr)
rEmpty == testReader("e", dataEmpty, NoErr)
rList == testReader("", data4, NoErr)
\* a second reader of the prefix of rX: its keys are those of rX
rX2 == testReader("x", StrMap("a" :> StrV("2")), NoErr)

\* the parsers of the tests, and parsers of a stream that can be closed
pNoStream == WithParser(NewStreamParser(NilStream), testParseFunc)
pNoParser == NewStreamParser(bytesReader)
pNothing == NewStreamParser(NilStream)
pStream == WithPrefix(WithParser(NewStreamParser(bytesReader), testParseFunc), "pr")
pFile == WithPrefix(WithParser(NewFileParser(TRUE).p, testParseFunc), "pr")
pParseFail == WithParser(NewStreamParser(closerStream(NoErr)), testParseFuncError)
pCloseFail == WithPrefix(WithParser(NewStreamParser(closerStream(errClose)), testParseFunc), "pr")

\* the longest reader list WithReaders is given
MaxReaders == 3

\* the arguments of WithReaders
ReaderLists ==
    {l \in {<<>>, <<rFail>>, <<rX, rFail, rY>>, <<rX, rY>>, <<rScalar>>, <<rBare>>,
            <<rTree>>, <<rDotted>>, <<rEmptyKey>>, <<rIntKeys>>, <<rEmpty>>,
            <<rList>>,
            <<rScalar, rBare>>, <<rX, rX2>>,
            <<pNoStream>>, <<pNoParser>>, <<pNothing>>, <<pStream>>, <<pFile>>,
            <<pParseFail>>, <<rX, pCloseFail>>,
            <<rScalar, rX, rFail, rY>>} : Len(l) <= MaxReaders}

----------------------------------------------------------------------------
(* Transforms: func(key string, value interface{}, c Conf) interface{}.    *)

ToBeTransformed == StrV("value-to-be-transformed")

\* testTransform of the tests
testTransform(key, value) == IF value = ToBeTransformed THEN IntV(101) ELSE value
\* a transform that supplies a value for a key that has none
nilTransform(key, value) == IF value = Nil THEN ToBeTransformed ELSE value

TransformNames == {"testTransform", "nilTransform"}
Transform(tr, key, value) == CASE tr = "testTransform" -> testTransform(key, value)
                               [] tr = "nilTransform" -> nilTransform(key, value)

\* the longest transform list WithTransformers is given
MaxTransformers == 2

RECURSIVE SeqsUpTo(_, _)
SeqsUpTo(S, n) == IF n = 0 THEN {<<>>}
                  ELSE SeqsUpTo(S, n - 1) \cup
                       {Append(s, x) : s \in {q \in SeqsUpTo(S, n - 1) : Len(q) = n - 1}, x \in S}

\* the arguments of WithTransformers
TransformLists == SeqsUpTo(TransformNames, MaxTransformers)

----------------------------------------------------------------------------
(* The arguments of Set, SetDefault and Get.                               *)

KeySet == {"p"}
GetKeys == KeySet \cup {"a", "no key"}
SetValues == {Nil, IntV(7)}
DefaultValues == {IntV(8), ToBeTransformed}

\* the goroutines of ConcSpec, and the identities of the maps they can refer to
Threads == {"g1", "g2"}
MapIds == 1 .. (Cardinality(Threads) + 1)

\* a goroutine: the method it is in (op) and where (pc), its arguments (key,
\* value) and locals (ptr: the map read from c.storage, 0 for none; todo: the
\* keys a Range has yet to pass; acc, keys: the keys slice of Keys and of Reset),
\* the result of its last call (res), and, history, the results the call would
\* have had running alone at an instant since it began (lin), whether the
\* result of its last call is one of them (atomic), and the methods other
\* goroutines that change the maps ran during the call (others)
NoRes == [none |-> TRUE]
Idle == [pc |-> "idle", op |-> "none", key |-> "", value |-> Nil, ptr |-> 0, todo |-> {},
         acc |-> EmptyBag, keys |-> <<>>, res |-> NoRes, lin |-> {}, atomic |-> TRUE,
         others |-> {}]

----------------------------------------------------------------------------
(* conf.Get: the lookup and the chain of transformers.                     *)

\* Resolve with the two maps consulted in the wrong order
ResolveDefaultsFirst(over, def, key) ==
    LET d == MapLoad(def, key)
    IN  IF d.ok THEN d.value ELSE MapLoad(over, key).value

\* value, ok := c.storage.Load(key); if !ok { value, _ = c.defaults.Load(key) }
Resolve(over, def, key) ==
    LET s == MapLoad(over, key)
    IN  IF s.ok THEN s.value ELSE MapLoad(def, key).value

\* RunTransformers applying the transformers last to first
RECURSIVE RunTransformersReversed(_, _, _, _)
RunTransformersReversed(trs, key, value, calls) ==
    IF trs = <<>> THEN [value |-> value, calls |-> calls]
    ELSE LET tr == trs[Len(trs)]
             out == Transform(tr, key, value)
         IN  RunTransformersReversed(SubSeq(trs, 1, Len(trs) - 1), key, out,
                                     Append(calls, [tr |-> tr, key |-> key,
                                                    in |-> value, out |-> out]))

\* for _, tr := range c.transformers { value = tr(key, value, c) }: the value and
\* the invocations made, in order
RECURSIVE RunTransformers(_, _, _, _)
RunTransformers(trs, key, value, calls) ==
    IF trs = <<>> THEN [value |-> value, calls |-> calls]
    ELSE LET out == Transform(Head(trs), key, value)
         IN  RunTransformers(Tail(trs), key, out,
                             Append(calls, [tr |-> Head(trs), key |-> key,
                                            in |-> value, out |-> out]))

\* GetRun returning nil for a key that is not found, without the transformers
GetRunNotFound(key) ==
    IF key \in DOMAIN Overrides \cup DOMAIN defaults
    THEN RunTransformers(transformers, key, Resolve(Overrides, defaults, key), <<>>)
    ELSE [value |-> Nil, calls |-> <<>>]

\* what c.Get(key) does: the value it returns and the transforms it invoked
GetRun(key) == RunTransformers(transformers, key, Resolve(Overrides, defaults, key), <<>>)

----------------------------------------------------------------------------
(* The methods of conf, each called and run to its return by one goroutine. *)

\* &sync.Map{}: an object nothing refers to yet
NewMapId == CHOOSE i \in MapIds :
                /\ i # storage
                /\ \A t \in Threads : th[t].ptr # i

\* the registry New() returns, as a value
NewConf == [storage |-> EmptyMap, defaults |-> EmptyMap]

\* var BoolValues = map[string]bool{...}
InitBoolValues == ("yes" :> TRUE) @@ ("Yes" :> TRUE) @@ ("y" :> TRUE) @@ ("Y" :> TRUE)
                  @@ ("On" :> TRUE) @@ ("on" :> TRUE)

\* New(), in a package whose variables are initialised: globalConf = New()
Init ==
    /\ BoolValues = InitBoolValues
    /\ globalConf = 1
    /\ confs = (1 :> NewConf)
    /\ handles = [g |-> 0, c |-> 0]
    /\ heap = [i \in MapIds |-> EmptyMap]
    /\ storage = 1
    /\ defaults = EmptyMap
    /\ readers = <<>>
    /\ transformers = <<>>
    /\ ret = [op |-> "New"]
    /\ written = [storage |-> EmptyMap, defaults |-> EmptyMap, via |-> "none"]
    /\ th = [t \in Threads |-> Idle]

\* WithReaders appending to the reader list (as long as the list stays short)
WithReadersAppend ==
    \E rs \in ReaderLists :
        /\ readers' = IF Len(readers \o rs) <= MaxReaders THEN readers \o rs ELSE rs
        /\ ret' = [op |-> "WithReaders", readers |-> rs]
        /\ UNCHANGED <<heap, storage, defaults, transformers, written, th, pkg>>

WithReaders ==
    \E rs \in ReaderLists :
        /\ readers' = rs
        /\ ret' = [op |-> "WithReaders", readers |-> rs]
        /\ UNCHANGED <<heap, storage, defaults, transformers, written, th, pkg>>

WithTransformers ==
    \E trs \in TransformLists :
        /\ transformers' = trs
        /\ ret' = [op |-> "WithTransformers"]
        /\ UNCHANGED <<heap, storage, defaults, readers, written, th, pkg>>

\* the heap after Reset: c.storage swapped for a new map, and every key the Range
\* over the old map collected (ret.keys) deleted from the old map
ResetHeap == [heap EXCEPT ![NewMapId] = EmptyMap, ![storage] = EmptyMap]

\* Reset clearing the defaults as well
ResetDefaultsToo ==
    /\ storage' = NewMapId
    /\ heap' = ResetHeap
    /\ defaults' = EmptyMap
    /\ ret' = [op |-> "Reset", keys |-> DOMAIN Overrides]
    /\ written' = [written EXCEPT !.storage = EmptyMap]
    /\ UNCHANGED <<readers, transformers, th, pkg>>

Reset ==
    /\ storage' = NewMapId
    /\ heap' = ResetHeap
    /\ ret' = [op |-> "Reset", keys |-> DOMAIN Overrides]
    /\ written' = [written EXCEPT !.storage = EmptyMap]
    /\ UNCHANGED <<defaults, readers, transformers, th, pkg>>

\* LoadLoop going on to the next reader after a failed Read
RECURSIVE LoadLoopContinue(_, _)
LoadLoopContinue(i, acc) ==
    IF i > Len(readers) THEN {acc}
    ELSE LET r == Read(readers[i])
             invoked == [acc EXCEPT !.reads = Append(@, i), !.events = Append(@, r.events)]
         IN  IF r.err # NoErr THEN LoadLoopContinue(i + 1, [invoked EXCEPT !.err = r.err])
             ELSE UNION {LoadLoopContinue(i + 1, [invoked EXCEPT !.m = StoreAll(@, w),
                                                                 !.stores = Append(@, w)])
                         : w \in scan(r.data, Prefix(readers[i]))}

\* LoadLoop invoking Read a second time on a reader that succeeded
RECURSIVE LoadLoopTwice(_, _)
LoadLoopTwice(i, acc) ==
    IF i > Len(readers) THEN {[acc EXCEPT !.err = NoErr]}
    ELSE LET r == Read(readers[i])
             invoked == [acc EXCEPT !.reads = Append(@, i), !.events = Append(@, r.events)]
         IN  IF r.err # NoErr THEN {[invoked EXCEPT !.err = r.err]}
             ELSE UNION {LoadLoopTwice(i + 1, [invoked EXCEPT !.m = StoreAll(@, w),
                                                              !.reads = Append(@, i),
                                                              !.stores = Append(@, w)])
                         : w \in scan(r.data, Prefix(readers[i]))}

\* LoadLoop keeping the value of a key that an earlier reader stored
RECURSIVE LoadLoopFirstWins(_, _)
LoadLoopFirstWins(i, acc) ==
    IF i > Len(readers) THEN {[acc EXCEPT !.err = NoErr]}
    ELSE LET r == Read(readers[i])
             invoked == [acc EXCEPT !.reads = Append(@, i), !.events = Append(@, r.events)]
         IN  IF r.err # NoErr THEN {[invoked EXCEPT !.err = r.err]}
             ELSE UNION {LoadLoopFirstWins(i + 1, [invoked EXCEPT !.m = @ @@ StoreAll(EmptyMap, w),
                                                                  !.stores = Append(@, w)])
                         : w \in scan(r.data, Prefix(readers[i]))}

\* the loop of Load over readers[i..], m the contents of c.storage: the error
\* returned, the readers Read was invoked on, the stores of each scan
RECURSIVE LoadLoop(_, _)
LoadLoop(i, acc) ==
    IF i > Len(readers) THEN {[acc EXCEPT !.err = NoErr]}
    ELSE LET r == Read(readers[i])
             invoked == [acc EXCEPT !.reads = Append(@, i), !.events = Append(@, r.events)]
         IN  IF r.err # NoErr THEN {[invoked EXCEPT !.err = r.err]}
             ELSE UNION {LoadLoop(i + 1, [invoked EXCEPT !.m = StoreAll(@, w),
                                                         !.stores = Append(@, w)])
                         : w \in scan(r.data, Prefix(readers[i]))}

\* the value stored last for key in the sequence of stores w
LastStored(w, key) == w[CHOOSE i \in 1 .. Len(w) :
                            /\ w[i].key = key
                            /\ \A j \in (i + 1) .. Len(w) : w[j].key # key].value

RECURSIVE Flat(_)
Flat(ws) == IF ws = <<>> THEN <<>> ELSE Head(ws) \o Flat(Tail(ws))

\* Load without its call of Reset: the readers' stores go into the current map
LoadNoReset ==
    \E out \in LoadLoop(1, [m |-> Overrides, err |-> NoErr, reads |-> <<>>, stores |-> <<>>,
                            events |-> <<>>]) :
        /\ heap' = [heap EXCEPT ![storage] = out.m]
        /\ ret' = [op |-> "Load", keys |-> DOMAIN Overrides, err |-> out.err,
                   reads |-> out.reads, stores |-> out.stores, events |-> out.events]
        /\ written' = [written EXCEPT !.storage = out.m]
        /\ UNCHANGED <<storage, defaults, readers, transformers, th, pkg>>

Load ==
    \E out \in LoadLoop(1, [m |-> EmptyMap, err |-> NoErr, reads |-> <<>>, stores |-> <<>>,
                            events |-> <<>>]) :
        /\ storage' = NewMapId
        /\ heap' = [ResetHeap EXCEPT ![NewMapId] = out.m]
        /\ ret' = [op |-> "Load", keys |-> DOMAIN Overrides, err |-> out.err,
                   reads |-> out.reads, stores |-> out.stores, events |-> out.events]
        /\ written' = [written EXCEPT !.storage =
                          [k \in {s.key : s \in {Flat(out.stores)[i] : i \in 1 .. Len(Flat(out.stores))}}
                              |-> LastStored(Flat(out.stores), k)]]
        /\ UNCHANGED <<defaults, readers, transformers, th, pkg>>

\* Keys without its Range over the defaults
KeysOverridesOnly == SetToBag(DOMAIN Overrides)

\* Keys returning a key of both maps once
KeysOnce == SetToBag(DOMAIN Overrides \cup DOMAIN defaults)

\* both Ranges of Keys with no other goroutine running: every key of each map
\* once; the order of the list is unspecified, so the list is kept as a bag
KeysList == SetToBag(DOMAIN Overrides) (+) SetToBag(DOMAIN defaults)

Keys ==
    /\ ret' = [op |-> "Keys", keys |-> KeysList]
    /\ UNCHANGED <<heap, storage, defaults, readers, transformers, written, th, pkg>>

SetDefault ==
    \E key \in KeySet, value \in DefaultValues :
        /\ defaults' = MapStore(defaults, key, value)
        /\ ret' = [op |-> "SetDefault", key |-> key, value |-> value]
        /\ written' = [written EXCEPT !.defaults = (key :> value) @@ @]
        /\ UNCHANGED <<heap, storage, readers, transformers, th, pkg>>

Set ==
    \E key \in KeySet, value \in SetValues :
        /\ heap' = [heap EXCEPT ![storage] = MapStore(@, key, value)]
        /\ ret' = [op |-> "Set", key |-> key, value |-> value]
        /\ written' = [written EXCEPT !.storage = (key :> value) @@ @]
        /\ UNCHANGED <<storage, defaults, readers, transformers, th, pkg>>

Get ==
    \E key \in GetKeys :
        /\ ret' = [op |-> "Get", key |-> key, value |-> GetRun(key).value,
                   calls |-> GetRun(key).calls]
        /\ UNCHANGED <<heap, storage, defaults, readers, transformers, written, th, pkg>>

Next ==
    \/ WithReaders
    \/ WithTransformers
    \/ Reset
    \/ Load
    \/ Keys
    \/ SetDefault
    \/ Set
    \/ Get

Spec == Init /\ [][Next]_vars

----------------------------------------------------------------------------
(* ConcSpec: Get, Set, SetDefault, Keys and Reset called by the goroutines *)
(* of Threads.  A step is one access to shared memory: the read of the     *)
(* c.storage pointer, its atomic swap, a Load, Store or Delete of a        *)
(* sync.Map, or the passage of a Range over one key.  A call begins with   *)
(* its first access and returns with its last.                             *)
(*                                                                         *)
(* sync.Map.Range visits no key twice and, for a key stored or deleted     *)
(* meanwhile, may reflect any mapping of that key from any point during    *)
(* the Range: it passes every key once, at some instant, and visits it if  *)
(* it is in the map at that instant.                                       *)

\* the keys given to Set, to SetDefault and to Get, and the values stored
ConcKeys == {"a", "b"}
ConcDefaultKeys == {"a"}
ConcGetKeys == {"a"}
ConcSetValues == {IntV(1)}
ConcDefaultValues == {IntV(2)}
Writers == {"Set", "SetDefault", "Reset"}

\* what Get(key) or Keys() returns when it runs alone on these maps
GetResult(over, def, key) ==
    [v |-> RunTransformers(transformers, key, Resolve(over, def, key), <<>>).value]
KeysResult(over, def) == [keys |-> DOMAIN over \cup DOMAIN def]

\* history kept for goroutine u when goroutine t has taken a step of method op
\* that left the maps over (of c.storage) and def
Track(s, self, op, over, def) ==
    IF s.pc \in {"idle", "done"} /\ ~self THEN s
    ELSE LET lin == CASE s.op = "Get" -> s.lin \cup {GetResult(over, def, s.key)}
                      [] s.op = "Keys" -> s.lin \cup {KeysResult(over, def)}
                      [] OTHER -> {}
             others == IF self THEN s.others ELSE s.others \cup ({op} \cap Writers)
         IN  IF s.pc = "done"
             THEN [Idle EXCEPT !.pc = "done", !.op = s.op, !.res = s.res, !.others = others,
                               !.atomic = (s.op \in {"Get", "Keys"} => s.res \in lin)]
             ELSE [s EXCEPT !.lin = lin, !.others = others]

\* goroutine t takes a step to rec, leaving heap h, c.storage s and defaults d;
\* a map nothing refers to any more is garbage
Commit(t, rec, h, s, d) ==
    LET th1 == [th EXCEPT ![t] = rec]
        live == {s} \cup {th1[u].ptr : u \in Threads}
        h1 == [i \in MapIds |-> IF i \in live THEN h[i] ELSE EmptyMap]
    IN  /\ heap' = h1
        /\ storage' = s
        /\ defaults' = d
        /\ th' = [u \in Threads |-> Track(th1[u], u = t, rec.op, h1[s], d)]
        /\ UNCHANGED <<readers, transformers, ret, written, pkg>>

\* a goroutine that is in no call begins one
Begin(t, op) == [Idle EXCEPT !.op = op]
Free(t) == th[t].pc \in {"idle", "done"}
Return(rec, res) == [rec EXCEPT !.pc = "done", !.ptr = 0, !.res = res]

\* Get, line 233: c.storage is read
GetStorage(t) ==
    /\ Free(t)
    /\ \E key \in ConcGetKeys :
          Commit(t, [Begin(t, "Get") EXCEPT !.pc = "GetLoad", !.key = key, !.ptr = storage],
                 heap, storage, defaults)

\* Get, line 233: Load of the map read; found, the value is returned
GetLoad(t) ==
    /\ th[t].pc = "GetLoad"
    /\ LET l == MapLoad(heap[th[t].ptr], th[t].key)
       IN  Commit(t, IF l.ok
                     THEN Return(th[t], [v |-> RunTransformers(transformers, th[t].key,
                                                               l.value, <<>>).value])
                     ELSE [th[t] EXCEPT !.pc = "GetDefault"],
                  heap, storage, defaults)

\* Get, line 235: Load of the defaults
GetDefault(t) ==
    /\ th[t].pc = "GetDefault"
    /\ Commit(t, Return(th[t], [v |-> RunTransformers(transformers, th[t].key,
                                                      MapLoad(defaults, th[t].key).value,
                                                      <<>>).value]),
              heap, storage, defaults)

\* Set, line 221: c.storage is read
SetStorage(t) ==
    /\ Free(t)
    /\ \E key \in ConcKeys, value \in ConcSetValues :
          Commit(t, [Begin(t, "Set") EXCEPT !.pc = "SetStore", !.key = key, !.value = value,
                                            !.ptr = storage],
                 heap, storage, defaults)

\* Set, line 221: Store into the map read
SetStore(t) ==
    /\ th[t].pc = "SetStore"
    /\ Commit(t, Return(th[t], NoRes),
              [heap EXCEPT ![th[t].ptr] = MapStore(@, th[t].key, th[t].value)],
              storage, defaults)

\* SetDefault, line 210
SetDefaultStore(t) ==
    /\ Free(t)
    /\ \E key \in ConcDefaultKeys, value \in ConcDefaultValues :
          Commit(t, Return([Begin(t, "SetDefault") EXCEPT !.key = key, !.value = value], NoRes),
                 heap, storage, MapStore(defaults, key, value))

\* Keys, line 190: c.storage is read
KeysStorage(t) ==
    /\ Free(t)
    /\ Commit(t, [Begin(t, "Keys") EXCEPT !.pc = "KeysRangeStorage", !.ptr = storage,
                                         !.todo = ConcKeys],
              heap, storage, defaults)

\* Keys, lines 190-193: the Range over the map read passes a key
KeysRangeStorage(t) ==
    /\ th[t].pc = "KeysRangeStorage"
    /\ \E key \in th[t].todo :
          LET acc == IF key \in DOMAIN heap[th[t].ptr] THEN th[t].acc (+) SetToBag({key})
                     ELSE th[t].acc
          IN  Commit(t, IF th[t].todo = {key}
                        THEN [th[t] EXCEPT !.pc = "KeysRangeDefaults", !.acc = acc,
                                           !.todo = ConcDefaultKeys]
                        ELSE [th[t] EXCEPT !.acc = acc, !.todo = @ \ {key}],
                     heap, storage, defaults)

\* Keys, lines 195-200: the Range over the defaults passes a key
KeysRangeDefaults(t) ==
    /\ th[t].pc = "KeysRangeDefaults"
    /\ \E key \in th[t].todo :
          LET acc == IF key \in DOMAIN defaults THEN th[t].acc (+) SetToBag({key})
                     ELSE th[t].acc
          IN  Commit(t, IF th[t].todo = {key}
                        THEN Return([th[t] EXCEPT !.acc = acc, !.todo = {}],
                                    [keys |-> BagToSet(acc)])
                        ELSE [th[t] EXCEPT !.acc = acc, !.todo = @ \ {key}],
                     heap, storage, defaults)

\* Reset, lines 120-123: atomic.SwapPointer of c.storage with a new map
ResetSwap(t) ==
    /\ Free(t)
    /\ Commit(t, [Begin(t, "Reset") EXCEPT !.pc = "ResetRange", !.ptr = storage,
                                          !.todo = ConcKeys],
              [heap EXCEPT ![NewMapId] = EmptyMap], NewMapId, defaults)

\* Reset, lines 127-130: the Range over the old map passes a key
ResetRange(t) ==
    /\ th[t].pc = "ResetRange"
    /\ \E key \in th[t].todo :
          LET keys == IF key \in DOMAIN heap[th[t].ptr] THEN Append(th[t].keys, key)
                      ELSE th[t].keys
          IN  Commit(t, IF th[t].todo # {key}
                        THEN [th[t] EXCEPT !.keys = keys, !.todo = @ \ {key}]
                        ELSE IF keys = <<>> THEN Return([th[t] EXCEPT !.todo = {}], NoRes)
                        ELSE [th[t] EXCEPT !.pc = "ResetDelete", !.keys = keys, !.todo = {}],
                     heap, storage, defaults)

\* Reset, lines 131-133: Delete of the next key collected
ResetDelete(t) ==
    /\ th[t].pc = "ResetDelete"
    /\ Commit(t, IF Len(th[t].keys) = 1 THEN Return([th[t] EXCEPT !.keys = <<>>], NoRes)
                 ELSE [th[t] EXCEPT !.keys = Tail(@)],
              [heap EXCEPT ![th[t].ptr] = MapDelete(@, Head(th[t].keys))],
              storage, defaults)

ConcNext ==
    \E t \in Threads :
        \/ GetStorage(t)
        \/ GetLoad(t)
        \/ GetDefault(t)
        \/ SetStorage(t)
        \/ SetStore(t)
        \/ SetDefaultStore(t)
        \/ KeysStorage(t)
        \/ KeysRangeStorage(t)
        \/ KeysRangeDefaults(t)
        \/ ResetSwap(t)
        \/ ResetRange(t)
        \/ ResetDelete(t)

ConcSpec == Init /\ [][ConcNext]_vars

----------------------------------------------------------------------------
(* The typed getters: cast.ToXxx(c.Get(key)).  Each cast.ToXxxE is given   *)
(* for the kinds of value of this model; cast.ToXxx drops the error and    *)
(* returns the zero value with it.  The numbers of the model are integers  *)
(* that fit every integer width.                                           *)

Cast(v) == [v |-> v, err |-> NoErr]
CastErr(zero) == [v |-> zero, err |-> [text |-> "unable to cast"]]

Digits == {"0", "1", "2", "3", "4", "5", "6", "7", "8", "9"}
DigitValue(c) == CHOOSE d \in 0 .. 9 : Digit(d) = c

\* the number a non-empty string of decimal digits denotes
RECURSIVE DecimalValue(_)
DecimalValue(s) == IF Len(s) = 1 THEN DigitValue(s)
                   ELSE 10 * DecimalValue(SubSeq(s, 1, Len(s) - 1))
                        + DigitValue(SubSeq(s, Len(s), Len(s)))

\* strconv.ParseInt of a decimal literal with an optional sign
ParseInt(s) ==
    LET signed == Len(s) > 0 /\ SubSeq(s, 1, 1) \in {"-", "+"}
        body == IF signed THEN SubSeq(s, 2, Len(s)) ELSE s
    IN  IF body = "" \/ \E i \in 1 .. Len(body) : SubSeq(body, i, i) \notin Digits
        THEN CastErr(0)
        ELSE Cast(IF SubSeq(s, 1, 1) = "-" THEN 0 - DecimalValue(body) ELSE DecimalValue(body))

\* strconv.ParseBool
ParseBool(s) == IF s \in {"1", "t", "T", "TRUE", "true", "True"} THEN Cast(TRUE)
                ELSE IF s \in {"0", "f", "F", "FALSE", "false", "False"} THEN Cast(FALSE)
                ELSE CastErr(FALSE)

ToStringE(i) == CASE i.kind = "nil" -> Cast("")
                  [] i.kind = "string" -> Cast(i.str)
                  [] i.kind = "int" -> Cast(IF i.int < 0 THEN "-" \o Itoa(0 - i.int) ELSE Itoa(i.int))
                  [] i.kind = "bool" -> Cast(IF i.bool THEN "true" ELSE "false")
                  [] OTHER -> CastErr("")

ToIntE(i) == CASE i.kind = "nil" -> Cast(0)
               [] i.kind = "int" -> Cast(i.int)
               [] i.kind = "string" -> ParseInt(i.str)
               [] i.kind = "bool" -> Cast(IF i.bool THEN 1 ELSE 0)
               [] OTHER -> CastErr(0)

\* strconv.ParseFloat for the strings of the model, none of which has a fraction
ToFloatE(i) == ToIntE(i)

ToBoolE(i) == CASE i.kind = "nil" -> Cast(FALSE)
                [] i.kind = "bool" -> Cast(i.bool)
                [] i.kind = "int" -> Cast(i.int # 0)
                [] i.kind = "string" -> ParseBool(i.str)
                [] OTHER -> CastErr(FALSE)

\* time.Time{} and time.Unix(sec, 0)
ZeroTime == [zero |-> TRUE]
Unix(sec) == [zero |-> FALSE, unix |-> sec]

\* an int is seconds since the epoch; of the strings only a timestamp parses
ToTimeE(i) == CASE i.kind = "int" -> Cast(Unix(i.int))
                [] i.kind = "string" /\ i.str = "2006-01-02T15:04:05Z" -> Cast(Unix(1136214245))
                [] OTHER -> CastErr(ZeroTime)

\* strings.ContainsAny(s, "nsuµmh")
HasUnit(s) == \E n \in 1 .. Len(s) : SubSeq(s, n, n) \in {"n", "s", "u", "µ", "m", "h"}

\* an int is a count of nanoseconds; a string without a unit is parsed with "ns"
\* appended; none of the strings of the model that hold a unit letter is a duration
ToDurationE(i) == CASE i.kind = "int" -> Cast(i.int)
                    [] i.kind = "string" /\ ~HasUnit(i.str) -> ParseInt(i.str)
                    [] OTHER -> CastErr(0)


GetString(key) == ToStringE(GetRun(key).value).v
GetInt(key) == ToIntE(GetRun(key).value).v
GetInt8(key) == ToIntE(GetRun(key).value).v
GetInt16(key) == ToIntE(GetRun(key).value).v
GetInt32(key) == ToIntE(GetRun(key).value).v
GetInt64(key) == ToIntE(GetRun(key).value).v
GetFloat32(key) == ToFloatE(GetRun(key).value).v
GetFloat64(key) == ToFloatE(GetRun(key).value).v
GetTime(key) == ToTimeE(GetRun(key).value).v
GetDuration(key) == ToDurationE(GetRun(key).value).v

\* strings.ToLower
UpperCase == "ABCDEFGHIJKLMNOPQRSTUVWXYZ"
LowerCase == "abcdefghijklmnopqrstuvwxyz"
ToLowerChar(c) ==
    IF \E i \in 1 .. Len(UpperCase) : SubSeq(UpperCase, i, i) = c
    THEN LET i == CHOOSE i \in 1 .. Len(UpperCase) : SubSeq(UpperCase, i, i) = c
         IN  SubSeq(LowerCase, i, i)
    ELSE c
RECURSIVE ToLower(_)
ToLower(s) == IF s = "" THEN "" ELSE ToLowerChar(SubSeq(s, 1, 1)) \o ToLower(SubSeq(s, 2, Len(s)))

\* GetBool without the lookup in BoolValues
GetBoolNoTable(key) == ToBoolE(GetRun(key).value).v

\* GetBool looking the string up in BoolValues whatever its case
GetBoolFold(key) ==
    LET value == GetRun(key).value
    IN  IF ToBoolE(value).err = NoErr THEN ToBoolE(value).v
        ELSE IF value.kind = "string"
             THEN (IF ToLower(value.str) \in DOMAIN BoolValues
                   THEN BoolValues[ToLower(value.str)] ELSE FALSE)
             ELSE FALSE

\* GetBool looking a string up in BoolValues before it converts it
GetBoolTableFirst(key) ==
    LET value == GetRun(key).value
    IN  IF value.kind = "string" /\ value.str \in DOMAIN BoolValues THEN BoolValues[value.str]
        ELSE ToBoolE(value).v

GetBool(key) ==
    LET value == GetRun(key).value
    IN  IF ToBoolE(value).err = NoErr THEN ToBoolE(value).v
        ELSE IF value.kind = "string"
             THEN (IF value.str \in DOMAIN BoolValues THEN BoolValues[value.str] ELSE FALSE)
             ELSE FALSE

----------------------------------------------------------------------------
(* BoolSpec: the key "flag" is set to the raw values of the table of       *)
(* TestConf_GetBool and to spellings of "yes" and "no", tokens are added   *)
(* to BoolValues, and GetBool is called.                                   *)

YesSpellings == {"yes", "yeS", "yEs", "yES", "Yes", "YeS", "YEs", "YES"}
NoSpellings == {"no", "nO", "No", "NO"}
RawValues ==
    {StrV(str) : str \in {"0", "1", "", "True", "False", "true", "foo", "sí", "34"}
                         \cup YesSpellings \cup NoSpellings}
    \cup {IntV(0), IntV(2), IntV(34), IntV(-1), BoolV(TRUE), BoolV(FALSE), Nil}
\* the strings the caller gives a value in BoolValues
BoolTokens == {"sí", "0", "true"}
FlagKeys == {"flag", "no key"}

\* c.Set("flag", rawValue)
SetFlag ==
    \E value \in RawValues :
        /\ heap' = [heap EXCEPT ![storage] = MapStore(@, "flag", value)]
        /\ ret' = [op |-> "Set", key |-> "flag", value |-> value]
        /\ written' = [written EXCEPT !.storage = ("flag" :> value) @@ @]
        /\ UNCHANGED <<storage, defaults, readers, transformers, th, globalConf, confs, handles>>
        /\ UNCHANGED BoolValues

\* conf.BoolValues[token] = value
AddBoolValue ==
    \E token \in BoolTokens, value \in BOOLEAN :
        /\ BoolValues' = (token :> value) @@ BoolValues
        /\ ret' = [op |-> "BoolValues", token |-> token, value |-> value]
        /\ UNCHANGED <<heap, storage, defaults, readers, transformers, written, th,
                       globalConf, confs, handles>>

\* c.GetBool(key); raw is what Get returns for the key
CallGetBool ==
    \E key \in FlagKeys :
        /\ ret' = [op |-> "GetBool", key |-> key, raw |-> GetRun(key).value,
                   value |-> GetBool(key)]
        /\ UNCHANGED <<heap, storage, defaults, readers, transformers, written, th, pkg>>

BoolNext ==
    \/ SetFlag
    \/ AddBoolValue
    \/ CallGetBool

BoolSpec == Init /\ [][BoolNext]_vars

----------------------------------------------------------------------------
(* GlobalSpec: the caller uses the package-level functions, the methods of *)
(* the registry GlobalConf() returned and the methods of a registry New()  *)
(* returned.  Every package-level function is return globalConf.F(...).    *)

\* the registries the model has room for
MaxConfs == 2

\* GlobalConf() returning a registry made for the call
GlobalConfNew ==
    IF Cardinality(DOMAIN confs) < MaxConfs
    THEN [conf |-> Cardinality(DOMAIN confs) + 1,
          confs |-> ((Cardinality(DOMAIN confs) + 1) :> NewConf) @@ confs]
    ELSE [conf |-> globalConf, confs |-> confs]

\* GlobalConf(): the registry returned, and the registries there are after it
GlobalConf == [conf |-> globalConf, confs |-> confs]

\* the ways to a registry the caller has: the package-level functions, the
\* object GlobalConf() returned, the object New() returned
Paths == {"package"} \cup (IF handles.g # 0 THEN {"GlobalConf"} ELSE {})
                     \cup (IF handles.c # 0 THEN {"New"} ELSE {})
\* the registry a call by this path works on
Receiver(path) == CASE path = "package" -> globalConf
                    [] path = "GlobalConf" -> handles.g
                    [] path = "New" -> handles.c
\* history: stores by the package-level functions and by the object of GlobalConf()
Record(path, w) == IF path = "New" THEN written ELSE [w EXCEPT !.via = path]

CallGlobalConf ==
    /\ handles' = [handles EXCEPT !.g = GlobalConf.conf]
    /\ confs' = GlobalConf.confs
    /\ ret' = [op |-> "GlobalConf", conf |-> GlobalConf.conf]
    /\ UNCHANGED <<heap, storage, defaults, readers, transformers, written, th,
                   BoolValues, globalConf>>

CallNew ==
    /\ Cardinality(DOMAIN confs) < MaxConfs
    /\ LET id == Cardinality(DOMAIN confs) + 1
       IN  /\ confs' = (id :> NewConf) @@ confs
           /\ handles' = [handles EXCEPT !.c = id]
           /\ ret' = [op |-> "New", conf |-> id]
    /\ UNCHANGED <<heap, storage, defaults, readers, transformers, written, th,
                   BoolValues, globalConf>>

CallSet(path) ==
    \E key \in KeySet, value \in SetValues :
        /\ confs' = [confs EXCEPT ![Receiver(path)].storage = MapStore(@, key, value)]
        /\ ret' = [op |-> "Set", path |-> path, key |-> key, value |-> value]
        /\ written' = Record(path, [written EXCEPT !.storage = (key :> value) @@ @])
        /\ UNCHANGED <<heap, storage, defaults, readers, transformers, th,
                       BoolValues, globalConf, handles>>

CallSetDefault(path) ==
    \E key \in KeySet, value \in DefaultValues :
        /\ confs' = [confs EXCEPT ![Receiver(path)].defaults = MapStore(@, key, value)]
        /\ ret' = [op |-> "SetDefault", path |-> path, key |-> key, value |-> value]
        /\ written' = Record(path, [written EXCEPT !.defaults = (key :> value) @@ @])
        /\ UNCHANGED <<heap, storage, defaults, readers, transformers, th,
                       BoolValues, globalConf, handles>>

CallReset(path) ==
    /\ confs' = [confs EXCEPT ![Receiver(path)].storage = EmptyMap]
    /\ ret' = [op |-> "Reset", path |-> path]
    /\ written' = Record(path, [written EXCEPT !.storage = EmptyMap])
    /\ UNCHANGED <<heap, storage, defaults, readers, transformers, th,
                   BoolValues, globalConf, handles>>

CallGet(path) ==
    \E key \in GetKeys :
        /\ ret' = [op |-> "Get", path |-> path, key |-> key,
                   value |-> Resolve(confs[Receiver(path)].storage,
                                     confs[Receiver(path)].defaults, key)]
        /\ UNCHANGED <<heap, storage, defaults, readers, transformers, written, th, pkg>>

CallKeys(path) ==
    /\ ret' = [op |-> "Keys", path |-> path,
               keys |-> SetToBag(DOMAIN confs[Receiver(path)].storage)
                        (+) SetToBag(DOMAIN confs[Receiver(path)].defaults)]
    /\ UNCHANGED <<heap, storage, defaults, readers, transformers, written, th, pkg>>

GlobalNext ==
    \/ CallGlobalConf
    \/ CallNew
    \/ \E path \in Paths :
          \/ CallSet(path)
          \/ CallSetDefault(path)
          \/ CallReset(path)
          \/ CallGet(path)
          \/ CallKeys(path)

GlobalSpec == Init /\ [][GlobalNext]_vars

----------------------------------------------------------------------------
(* FrameSpec: Get, Keys, the typed accessors, Set and SetDefault called    *)
(* with two keys on a registry that has readers and transformers.          *)

FrameKeys == {"p", "q"}
FrameReaderLists == {<<rX>>, <<rX, rY>>}
FrameTransformLists == {<<>>, <<"nilTransform">>}
TypedGetters == {"GetString", "GetInt", "GetInt8", "GetInt16", "GetInt32", "GetInt64",
                 "GetFloat32", "GetFloat64", "GetTime", "GetDuration", "GetBool"}

\* the result of the typed accessor named get
Typed(get, key) ==
    CASE get = "GetString" -> GetString(key)
      [] get = "GetInt" -> GetInt(key)
      [] get = "GetInt8" -> GetInt8(key)
      [] get = "GetInt16" -> GetInt16(key)
      [] get = "GetInt32" -> GetInt32(key)
      [] get = "GetInt64" -> GetInt64(key)
      [] get = "GetFloat32" -> GetFloat32(key)
      [] get = "GetFloat64" -> GetFloat64(key)
      [] get = "GetTime" -> GetTime(key)
      [] get = "GetDuration" -> GetDuration(key)
      [] get = "GetBool" -> GetBool(key)

FrameWithReaders ==
    \E rs \in FrameReaderLists :
        /\ readers' = rs
        /\ ret' = [op |-> "WithReaders", readers |-> rs]
        /\ UNCHANGED <<heap, storage, defaults, transformers, written, th, pkg>>

FrameWithTransformers ==
    \E trs \in FrameTransformLists :
        /\ transformers' = trs
        /\ ret' = [op |-> "WithTransformers"]
        /\ UNCHANGED <<heap, storage, defaults, readers, written, th, pkg>>

FrameSet ==
    \E key \in FrameKeys, value \in SetValues :
        /\ heap' = [heap EXCEPT ![storage] = MapStore(@, key, value)]
        /\ ret' = [op |-> "Set", key |-> key, value |-> value]
        /\ written' = [written EXCEPT !.storage = (key :> value) @@ @]
        /\ UNCHANGED <<storage, defaults, readers, transformers, th, pkg>>

FrameSetDefault ==
    \E key \in FrameKeys, value \in {IntV(8)} :
        /\ defaults' = MapStore(defaults, key, value)
        /\ ret' = [op |-> "SetDefault", key |-> key, value |-> value]
        /\ written' = [written EXCEPT !.defaults = (key :> value) @@ @]
        /\ UNCHANGED <<heap, storage, readers, transformers, th, pkg>>

\* Get keeping the value it resolved as an override
FrameGetCaching ==
    \E key \in FrameKeys :
        /\ heap' = [heap EXCEPT ![storage] = MapStore(@, key, GetRun(key).value)]
        /\ ret' = [op |-> "Get", key |-> key, value |-> GetRun(key).value,
                   calls |-> GetRun(key).calls]
        /\ UNCHANGED <<storage, defaults, readers, transformers, written, th, pkg>>

FrameGet ==
    \E key \in FrameKeys :
        /\ ret' = [op |-> "Get", key |-> key, value |-> GetRun(key).value,
                   calls |-> GetRun(key).calls]
        /\ UNCHANGED <<heap, storage, defaults, readers, transformers, written, th, pkg>>

FrameTyped ==
    \E key \in FrameKeys, get \in TypedGetters :
        /\ ret' = [op |-> get, key |-> key, value |-> Typed(get, key)]
        /\ UNCHANGED <<heap, storage, defaults, readers, transformers, written, th, pkg>>

FrameNext ==
    \/ FrameWithReaders
    \/ FrameWithTransformers
    \/ FrameSet
    \/ FrameSetDefault
    \/ FrameGet
    \/ FrameTyped
    \/ Keys

FrameSpec == Init /\ [][FrameNext]_vars

----------------------------------------------------------------------------
(* LoadSpec: one goroutine calls WithReaders and Load; Load runs in steps. *)
(* The goroutine is at "reset" (Load called, c.Reset() not yet run), at    *)
(* "range" (the head of the loop over c.readers, i the next index), at     *)
(* "scan" (Read of reader i has returned its data) or at "store" (scan is  *)
(* storing: todo holds the stores it has yet to make); reads lists the     *)
(* readers whose Read this call has invoked.                               *)

Caller == "g1"
InLoad(pc, i, todo, reads) ==
    [pc |-> pc, op |-> "Load", ptr |-> 0, i |-> i, todo |-> todo, reads |-> reads]
At(pc) == th[Caller].pc = pc
Goto(t) == th' = [th EXCEPT ![Caller] = t]

LoadWithReaders ==
    /\ At("idle")
    /\ WithReaders

LoadCall ==
    /\ At("idle")
    /\ Goto(InLoad("reset", 1, <<>>, <<>>))
    /\ ret' = [op |-> "Load called"]
    /\ UNCHANGED <<heap, storage, defaults, readers, transformers, written, pkg>>

\* c.Reset()
LoadReset ==
    /\ At("reset")
    /\ storage' = NewMapId
    /\ heap' = ResetHeap
    /\ Goto([th[Caller] EXCEPT !.pc = "range"])
    /\ UNCHANGED <<defaults, readers, transformers, ret, written, pkg>>

\* Load calling Read of the reader that failed again and again
LoadReadRetry ==
    /\ At("range") /\ th[Caller].i <= Len(readers)
    /\ LET t == th[Caller]
           r == Read(readers[t.i])
       IN  IF r.err # NoErr
           THEN Goto([t EXCEPT !.reads = IF t.reads # <<>> /\ t.reads[Len(t.reads)] = t.i
                                         THEN @ ELSE Append(@, t.i)])
           ELSE Goto([t EXCEPT !.pc = "scan", !.reads = Append(@, t.i)])
    /\ UNCHANGED <<heap, storage, defaults, readers, transformers, ret, written, pkg>>

\* data, err := reader.Read(ctx); if err != nil { return err }
LoadRead ==
    /\ At("range") /\ th[Caller].i <= Len(readers)
    /\ LET t == th[Caller]
           r == Read(readers[t.i])
       IN  IF r.err # NoErr
           THEN /\ Goto(Idle)
                /\ ret' = [op |-> "Load", err |-> r.err, reads |-> Append(t.reads, t.i)]
           ELSE /\ Goto([t EXCEPT !.pc = "scan", !.reads = Append(@, t.i)])
                /\ UNCHANGED ret
    /\ UNCHANGED <<heap, storage, defaults, readers, transformers, written, pkg>>

\* c.scan(data, reader.Prefix()): the stores it makes, in the order the maps
\* of data are ranged over
LoadScan ==
    /\ At("scan")
    /\ \E w \in scan(Read(readers[th[Caller].i]).data, Prefix(readers[th[Caller].i])) :
          Goto([th[Caller] EXCEPT !.pc = "store", !.todo = w])
    /\ UNCHANGED <<heap, storage, defaults, readers, transformers, ret, written, pkg>>

\* c.storage.Store(key, data), and the end of scan after the last one
LoadStore ==
    /\ At("store")
    /\ LET t == th[Caller]
       IN  IF t.todo = <<>>
           THEN /\ Goto([t EXCEPT !.pc = "range", !.i = @ + 1])
                /\ UNCHANGED heap
           ELSE /\ heap' = [heap EXCEPT ![storage] =
                                MapStore(@, Head(t.todo).key, Head(t.todo).value)]
                /\ Goto([t EXCEPT !.todo = Tail(@)])
    /\ UNCHANGED <<storage, defaults, readers, transformers, ret, written, pkg>>

\* return nil
LoadReturn ==
    /\ At("range") /\ th[Caller].i > Len(readers)
    /\ Goto(Idle)
    /\ ret' = [op |-> "Load", err |-> NoErr, reads |-> th[Caller].reads]
    /\ UNCHANGED <<heap, storage, defaults, readers, transformers, written, pkg>>

\* the steps of a Load that has been called
LoadStep ==
    \/ LoadReset
    \/ LoadRead
    \/ LoadScan
    \/ LoadStore
    \/ LoadReturn

LoadNext ==
    \/ LoadWithReaders
    \/ LoadCall
    \/ LoadStep

\* the goroutine that called Load keeps running, and every Read returns
LoadSpec == Init /\ [][LoadNext]_vars /\ WF_vars(LoadStep)

----------------------------------------------------------------------------
(* Properties of Spec.                                                     *)

\* the keys of a sequence of store sequences
StoredKeys(ws) == {Flat(ws)[i].key : i \in 1 .. Len(Flat(ws))}

\* C1: with no transforms registered, Get(K) returns the value last stored
\* for K in the overrides (by Set, or by Load, since the last reset) if there
\* is one, even when it is nil and even when K has a default; otherwise the
\* value last stored for K by SetDefault; otherwise nil.
C1_GetPrecedence ==
    (ret.op = "Get" /\ transformers = <<>>) =>
        ret.value = IF ret.key \in DOMAIN written.storage THEN written.storage[ret.key]
                    ELSE IF ret.key \in DOMAIN written.defaults THEN written.defaults[ret.key]
                    ELSE Nil

\* Get of a key whose override is nil and that has a default
C1_Witness ==
    /\ ret.op = "Get" /\ transformers = <<>>
    /\ ret.key \in DOMAIN written.storage /\ written.storage[ret.key] = Nil
    /\ ret.key \in DOMAIN written.defaults
    /\ ret.value = Nil

\* C2: Reset removes every override and changes no default; Get of a key that
\* was overridden then returns its default, or nil if it has none.
C2_ResetClearsOverridesOnly ==
    [][ret'.op = "Reset" =>
          /\ Overrides' = EmptyMap
          /\ defaults' = defaults
          /\ transformers = <<>> =>
                \A k \in DOMAIN Overrides :
                    GetRun(k)'.value = IF k \in DOMAIN defaults THEN defaults[k] ELSE Nil]_vars

\* a Reset that removed the override of a key that has a default
C2_Witness ==
    /\ ret.op = "Reset"
    /\ \E k \in ret.keys : k \in DOMAIN defaults /\ GetRun(k).value = defaults[k]
    /\ Overrides = EmptyMap

\* the first reader whose Read returns an error
FirstFailing == CHOOSE i \in 1 .. Len(readers) :
                    /\ Read(readers[i]).err # NoErr
                    /\ \A j \in 1 .. (i - 1) : Read(readers[j]).err = NoErr

\* C3: when Ri is the first reader whose Read fails with E, Load returns E,
\* Read is invoked on R1..Ri only, nothing of Ri is flattened, and the keys
\* flattened from R1..Ri-1 are in the overrides when Load returns.
C3_LoadAbortsAtFirstError ==
    (ret.op = "Load" /\ \E i \in 1 .. Len(readers) : Read(readers[i]).err # NoErr) =>
        LET i == FirstFailing
        IN  /\ ret.err = Read(readers[i]).err
            /\ ret.reads = [j \in 1 .. i |-> j]
            /\ Len(ret.stores) = i - 1
            /\ \A j \in 1 .. (i - 1) :
                  /\ ret.stores[j] \in scan(Read(readers[j]).data, Prefix(readers[j]))
                  /\ \A n \in 1 .. Len(ret.stores[j]) : ret.stores[j][n].key \in DOMAIN Overrides
            /\ DOMAIN Overrides = StoredKeys(ret.stores)

\* a Load of three readers whose second fails: the keys of the first are there
C3_Witness ==
    /\ ret.op = "Load" /\ ret.err = errFake
    /\ Len(readers) = 3 /\ ret.reads = <<1, 2>>
    /\ Prefix(readers[1]) \in DOMAIN Overrides

\* C4: every Load, failing or not, first empties the overrides: a key that
\* was overridden before the call is overridden after it only if a reader of
\* this call stored it; the defaults are unchanged.
C4_LoadResetsFirst ==
    [][ret'.op = "Load" =>
          /\ \A k \in DOMAIN Overrides :
                k \in DOMAIN Overrides' => k \in StoredKeys(ret'.stores)
          /\ ret'.keys = DOMAIN Overrides
          /\ DOMAIN Overrides' = StoredKeys(ret'.stores)
          /\ defaults' = defaults]_vars

\* a Load whose first reader failed: the override it found is gone
C4_Witness ==
    /\ ret.op = "Load" /\ ret.err # NoErr /\ ret.reads = <<1>>
    /\ ret.keys # {} /\ Overrides = EmptyMap
    /\ defaults # EmptyMap

\* the textual form of a map key
KeyText(k) == IF k.kind = "string" THEN k.str ELSE ToString(k.int)

\* segments joined by "."
RECURSIVE Join(_)
Join(segs) == IF Len(segs) = 1 THEN segs[1]
              ELSE Join(SubSeq(segs, 1, Len(segs) - 1)) \o "." \o segs[Len(segs)]

\* the nodes of a raw value below the segments segs, each with the segments
\* on the way to it; a root without segments is no node
RECURSIVE Nodes(_, _)
Nodes(data, segs) ==
    (IF segs = <<>> THEN {} ELSE {[segs |-> segs, value |-> data]}) \cup
    CASE data.kind = "map" ->
           UNION {Nodes(data.map[k], Append(segs, KeyText(k))) : k \in DOMAIN data.map}
      [] data.kind = "slice" ->
           UNION {Nodes(data.elems[i], Append(segs, ToString(i - 1))) : i \in 1 .. Len(data.elems)}
      [] OTHER -> {}

\* the nodes of the raw values of all readers, each with its reader
LoadedNodes ==
    UNION {{[rd |-> j, segs |-> n.segs, value |-> n.value] :
              n \in Nodes(Read(readers[j]).data,
                          IF Prefix(readers[j]) = "" THEN <<>> ELSE <<Prefix(readers[j])>>)}
           : j \in 1 .. Len(readers)}

RECURSIVE StringKeyed(_)
StringKeyed(data) ==
    CASE data.kind = "map" -> /\ data.ktype = "string"
                              /\ \A k \in DOMAIN data.map : StringKeyed(data.map[k])
      [] data.kind = "slice" -> \A i \in 1 .. Len(data.elems) : StringKeyed(data.elems[i])
      [] OTHER -> TRUE

\* the statement of C5 for a reader whose maps are keyed by non-empty strings:
\* after a successful Load of the reader, every node of its raw value other
\* than a prefix-less root is returned by Get of its path.
C5_EveryNodeRetrievable ==
    (/\ ret.op = "Load" /\ ret.err = NoErr /\ transformers = <<>>
     /\ Len(readers) = 1 /\ StringKeyed(Read(readers[1]).data)
     /\ \A n \in LoadedNodes : \A i \in 1 .. Len(n.segs) : n.segs[i] # "") =>
        \A n \in LoadedNodes : GetRun(Join(n.segs)).value = n.value

\* C5 as stated, for one reader no two nodes of which have the same path and
\* no map of which has the empty key: after a successful Load of the reader,
\* every node of its raw value other than a prefix-less root is returned by
\* Get of its path, composite nodes as well as leaves.
C5_NodeRetrievableByPath ==
    (/\ ret.op = "Load" /\ ret.err = NoErr /\ transformers = <<>>
     /\ Len(readers) = 1
     /\ \A n \in LoadedNodes : \A i \in 1 .. Len(n.segs) : n.segs[i] # ""
     /\ \A n1, n2 \in LoadedNodes : Join(n1.segs) = Join(n2.segs) => n1 = n2) =>
        \A n \in LoadedNodes : GetRun(Join(n.segs)).value = n.value

\* every map is keyed by strings, no entry of a prefix-less root has the key
\* "", and no two nodes have the same path
Addressable ==
    /\ \A j \in 1 .. Len(readers) : StringKeyed(Read(readers[j]).data)
    /\ \A n \in LoadedNodes : n.segs[1] # ""
    /\ \A n1, n2 \in LoadedNodes : Join(n1.segs) = Join(n2.segs) => n1 = n2

\* after a successful Load, every node of the raw values other than a
\* prefix-less root is returned unchanged by Get of its path, composite nodes
\* as well as leaves, provided that the maps are keyed by strings, that no
\* two nodes have the same path and that no entry of a prefix-less root has
\* the empty key.
C5_NodesRetrievable ==
    (ret.op = "Load" /\ ret.err = NoErr /\ transformers = <<>> /\ Addressable) =>
        \A n \in LoadedNodes : GetRun(Join(n.segs)).value = n.value

\* the nested value of the tests, loaded without prefix
C5_Witness ==
    /\ ret.op = "Load" /\ ret.err = NoErr /\ transformers = <<>>
    /\ readers = <<rTree>> /\ Addressable
    /\ GetRun("a.b.0.c").value = IntV(1)
    /\ GetRun("a.b.1.d").value = IntV(2)
    /\ GetRun("a").value = dataTree.map[StrV("a")]

Scalar(data) == data.kind \notin {"map", "slice"}

\* C6: a reader whose raw value is a scalar contributes exactly one key, its
\* prefix, when the prefix is not empty (Get(prefix) is the scalar, no other
\* key exists), and no key when the prefix is empty.
C6_ScalarReader ==
    (ret.op = "Load" /\ ret.err = NoErr) =>
        \A j \in 1 .. Len(readers) :
            LET data == Read(readers[j]).data
                prefix == Prefix(readers[j])
            IN  Scalar(data) =>
                  /\ ret.stores[j] = IF prefix # "" THEN <<[key |-> prefix, value |-> data]>>
                                     ELSE <<>>
                  /\ (Len(readers) = 1 /\ prefix # "") =>
                        /\ DOMAIN Overrides = {prefix}
                        /\ transformers = <<>> => GetRun(prefix).value = data
                  /\ (Len(readers) = 1 /\ prefix = "" /\ defaults = EmptyMap) =>
                        KeysList = EmptyBag

\* a scalar with a prefix and a scalar without one, loaded together
C6_Witness ==
    /\ ret.op = "Load" /\ ret.err = NoErr
    /\ readers = <<rScalar, rBare>>
    /\ ret.stores = <<(<<[key |-> "p", value |-> data2]>>), <<>>>>
    /\ defaults = EmptyMap /\ KeysList = SetToBag({"p"})

\* C11: the set of the keys Keys returns is the union of the keys set or
\* loaded since the last Reset or Load began and of the keys given a default.
C11_KeysIsUnion ==
    ret.op = "Keys" =>
        BagToSet(ret.keys) = DOMAIN written.storage \cup DOMAIN written.defaults

\* Keys returning keys that are only overridden and a key that only has a default
C11_Witness ==
    /\ ret.op = "Keys"
    /\ DOMAIN written.storage \ DOMAIN written.defaults # {}
    /\ DOMAIN written.defaults \ DOMAIN written.storage # {}
    /\ BagToSet(ret.keys) = DOMAIN written.storage \cup DOMAIN written.defaults

\* C12: a Load invokes Read on R1, R2, ... in this order, on no reader twice,
\* on Ri only when R1..Ri-1 have returned no error and have been flattened,
\* and on every reader when it succeeds.
C12_ReadOncePerReaderInOrder ==
    ret.op = "Load" =>
        /\ Len(ret.reads) <= Len(readers)
        /\ \A n \in 1 .. Len(ret.reads) :
              /\ ret.reads[n] = n
              /\ \A j \in 1 .. (n - 1) :
                    /\ Read(readers[j]).err = NoErr
                    /\ j <= Len(ret.stores)
        /\ ret.err = NoErr => Len(ret.reads) = Len(readers)

\* a successful Load of two readers
C12_Witness ==
    /\ ret.op = "Load" /\ ret.err = NoErr
    /\ readers = <<rX, rY>> /\ ret.reads = <<1, 2>> /\ Len(ret.stores) = 2

\* the readers of this Load that stored key
Contributors(key) ==
    {i \in 1 .. Len(ret.stores) : \E n \in 1 .. Len(ret.stores[i]) : ret.stores[i][n].key = key}
LastContributor(key) ==
    CHOOSE i \in Contributors(key) : \A j \in Contributors(key) : j <= i

\* C13: after a successful Load, a key that several readers stored has a
\* value that the last of these readers stored for it.
C13_LastReaderWins ==
    (ret.op = "Load" /\ ret.err = NoErr) =>
        \A key \in StoredKeys(ret.stores) :
            LET w == ret.stores[LastContributor(key)]
            IN  /\ key \in DOMAIN Overrides
                /\ \E n \in 1 .. Len(w) : w[n].key = key /\ w[n].value = Overrides[key]

\* rX and then rX2 loaded: "x.a" has the value of rX2
C13_Witness ==
    /\ ret.op = "Load" /\ ret.err = NoErr
    /\ readers = <<rX, rX2>>
    /\ Contributors("x.a") = {1, 2}
    /\ Overrides["x.a"] = StrV("2")

\* C14: NewStreamParser makes a parser of any stream, nil included, with no
\* decode function; Read of a parser with no stream returns ErrNoStream, Read
\* of a parser with a stream and no decode function returns ErrNoParser,
\* neither calls a decode function or the stream, and Load returns the very
\* error, which errors.Is recognises.
C14_ParserSentinels ==
    /\ \A stream \in {NilStream, bytesReader, closerStream(NoErr)} :
          /\ IsParser(NewStreamParser(stream))
          /\ NewStreamParser(stream).parser = NilParseFunc
    /\ ret.op = "Load" =>
          \A n \in 1 .. Len(ret.reads) :
              LET p == readers[n]
                  sentinel == IF p.stream = NilStream THEN ErrNoStream ELSE ErrNoParser
              IN  (IsParser(p) /\ (p.stream = NilStream \/ p.parser = NilParseFunc)) =>
                      /\ ret.err = sentinel
                      /\ errorsIs(ret.err, sentinel)
                      /\ ret.events[n] = <<>>
                      /\ Len(ret.stores) = n - 1

\* Load of a parser that has neither a stream nor a decode function
C14_Witness ==
    /\ ret.op = "Load"
    /\ readers = <<pNothing>>
    /\ ret.reads = <<1>>
    /\ ret.err = ErrNoStream /\ ret.err # ErrNoParser

\* C15: Read of a parser calls Close only after the decode function has
\* returned no error and only on a stream that is an io.Closer, and always
\* then; when Close fails, Load returns an error that wraps the one of Close
\* and nothing of the reader is in the overrides.
C15_CloseAfterDecode ==
    ret.op = "Load" =>
        \A n \in 1 .. Len(ret.reads) :
            LET p == readers[n]
                decoded == ParseFunc(p.parser, p.stream)
            IN  (IsParser(p) /\ p.stream # NilStream /\ p.parser # NilParseFunc) =>
                    /\ ret.events[n] \in {<<"parse">>, <<"parse", "close">>}
                    /\ ret.events[n] = <<"parse", "close">> <=>
                          (decoded.err = NoErr /\ p.stream.kind = "io.ReadCloser")
                    /\ (ret.events[n] = <<"parse", "close">> /\ p.stream.closeErr # NoErr) =>
                          /\ ret.err # NoErr
                          /\ errorsIs(ret.err, p.stream.closeErr)
                          /\ Len(ret.stores) = n - 1
                          /\ DOMAIN Overrides = StoredKeys(ret.stores)
                          /\ \A key \in DOMAIN Overrides : Overrides[key] # decoded.data

\* Load of rX and of a parser whose stream fails to close
C15_Witness ==
    /\ ret.op = "Load"
    /\ readers = <<rX, pCloseFail>>
    /\ ret.events = <<(<<>>), <<"parse", "close">>>>
    /\ errorsIs(ret.err, errClose) /\ ret.err # errClose
    /\ DOMAIN Overrides = {"x", "x.a"}

\* the raw values C16 lists: those that are true, those that are false
\* whatever BoolValues holds, and the strings that nothing recognises
TrueRaws == {StrV("yes"), StrV("Yes"), StrV("1"), StrV("True"), BoolV(TRUE),
             IntV(2), IntV(34), IntV(-1)}
FalseRaws == {StrV("0"), StrV("False"), BoolV(FALSE), IntV(0), Nil}
UnrecognisedRaws == {StrV("no"), StrV(""), StrV("foo"), StrV("34"), StrV("sí")}
Added(str) == str \in DOMAIN BoolValues /\ BoolValues[str] /\ str \notin DOMAIN InitBoolValues

\* C16: GetBool is true for "yes", "Yes", "1", "True", true and a number that
\* is not 0; false for "0", "False", false, 0 and a key that has no value;
\* and, for "no", "", "foo", "34" and any other string that is no boolean
\* literal and no token of the initial BoolValues, false until the caller sets
\* BoolValues of the string to true, and true from then on.
C16_GetBoolTable ==
    ret.op = "GetBool" =>
        /\ ret.raw \in TrueRaws => ret.value = TRUE
        /\ ret.raw \in FalseRaws => ret.value = FALSE
        /\ ret.raw \in UnrecognisedRaws => ret.value = Added(ret.raw.str)
        /\ ret.key = "no key" => ret.raw = Nil

\* GetBool of "sí" after BoolValues["sí"] = true
C16_Witness ==
    /\ ret.op = "GetBool" /\ ret.key = "flag"
    /\ ret.raw = StrV("sí") /\ Added("sí")
    /\ ret.value = TRUE

\* C17 as stated: with the initial BoolValues, GetBool is true for every
\* spelling of "yes" and false for every spelling of "no".
C17_YesNoAnyCase ==
    (ret.op = "GetBool" /\ BoolValues = InitBoolValues /\ ret.raw.kind = "string") =>
        /\ ret.raw.str \in YesSpellings => ret.value = TRUE
        /\ ret.raw.str \in NoSpellings => ret.value = FALSE

\* C17: with the initial BoolValues, GetBool is true for "yes" and "Yes" and
\* false for the six other spellings of "yes", and false for every spelling
\* of "no".
C17_YesAsListed ==
    (ret.op = "GetBool" /\ BoolValues = InitBoolValues /\ ret.raw.kind = "string") =>
        /\ ret.raw.str \in YesSpellings => ret.value = (ret.raw.str \in {"yes", "Yes"})
        /\ ret.raw.str \in NoSpellings => ret.value = FALSE

\* GetBool of "YES" with the initial BoolValues
C17_Witness ==
    /\ ret.op = "GetBool" /\ BoolValues = InitBoolValues
    /\ ret.raw = StrV("YES")
    /\ ret.value = FALSE

\* what Get(key) is to return after the stores of the history w
Expected(w, key) == IF key \in DOMAIN w.storage THEN w.storage[key]
                    ELSE IF key \in DOMAIN w.defaults THEN w.defaults[key]
                    ELSE Nil

\* C18: globalConf is the registry made when the package is initialised and
\* GlobalConf() returns it at every call; Get and Keys, called as package-level
\* functions or on the object of GlobalConf(), return what was stored by the
\* package-level functions and on the object of GlobalConf() together, and
\* nothing of what was stored in a registry made by New().
C18_OneGlobalRegistry ==
    /\ globalConf = 1
    /\ handles.g \in {0, globalConf}
    /\ handles.c # globalConf
    /\ ret.op = "GlobalConf" => ret.conf = globalConf
    /\ (ret.op = "Get" /\ ret.path \in {"package", "GlobalConf"}) =>
          ret.value = Expected(written, ret.key)
    /\ (ret.op = "Keys" /\ ret.path \in {"package", "GlobalConf"}) =>
          BagToSet(ret.keys) = DOMAIN written.storage \cup DOMAIN written.defaults

\* the package-level Get returns what Set stored on the object of
\* GlobalConf(), while there is a registry made by New()
C18_Witness ==
    /\ ret.op = "Get" /\ ret.path = "package" /\ ret.key = "p"
    /\ written.via = "GlobalConf"
    /\ handles.c # 0
    /\ "p" \in DOMAIN written.storage /\ ret.value = IntV(7)

\* C21: for a value that is no string, and for a string that is a boolean
\* literal, GetBool returns what it returns with the initial BoolValues,
\* whatever the caller has put into BoolValues for "0" and for "true".
C21_TableAfterCoercion ==
    ret.op = "GetBool" =>
        /\ ret.raw.kind = "int" => ret.value = (ret.raw.int # 0)
        /\ ret.raw.kind = "bool" => ret.value = ret.raw.bool
        /\ ret.raw.kind = "nil" => ret.value = FALSE
        /\ ret.raw \in {StrV("1"), StrV("True"), StrV("true")} => ret.value = TRUE
        /\ ret.raw \in {StrV("0"), StrV("False")} => ret.value = FALSE

\* GetBool of "0" after BoolValues["0"] = true, and of "true" after
\* BoolValues["true"] = false
C21_Witness ==
    /\ ret.op = "GetBool"
    /\ "0" \in DOMAIN BoolValues /\ BoolValues["0"] = TRUE
    /\ "true" \in DOMAIN BoolValues /\ BoolValues["true"] = FALSE
    /\ \/ ret.raw = StrV("0") /\ ret.value = FALSE
       \/ ret.raw = StrV("true") /\ ret.value = TRUE

\* the maps of a raw value that are not keyed by strings, each with the
\* segments on the way to it
NonStringMaps(j) ==
    {n \in LoadedNodes : n.rd = j /\ n.value.kind = "map" /\ n.value.ktype # "string"}

\* C22 as stated: after a successful Load, an entry with key k of a map that
\* is not keyed by strings and is stored under base is returned by Get of
\* base + "." + the text of k, and the entries of the map have as many keys
\* as the map has entries.
C22_NonStringKeys ==
    (ret.op = "Load" /\ ret.err = NoErr /\ transformers = <<>>) =>
        \A j \in 1 .. Len(readers) : \A n \in NonStringMaps(j) :
            /\ \A k \in DOMAIN n.value.map :
                  GetRun(Join(n.segs) \o "." \o KeyText(k)).value = n.value.map[k]
            /\ \A k1, k2 \in DOMAIN n.value.map :
                  k1 # k2 => \E key1, key2 \in DOMAIN Overrides :
                                 /\ key1 # key2
                                 /\ Overrides[key1] = n.value.map[k1]
                                 /\ Overrides[key2] = n.value.map[k2]

\* C23 as stated: after a successful Load into a registry without defaults,
\* the keys of Keys() are exactly the paths of the nodes of the raw values,
\* a prefix-less root excluded (stated for raw values whose prefix-less root
\* has no entry with the empty key).
C23_KeysAreNodePaths ==
    (/\ ret.op = "Load" /\ ret.err = NoErr /\ defaults = EmptyMap
     /\ \A n \in LoadedNodes : n.segs[1] # "") =>
        BagToSet(KeysList) = {Join(n.segs) : n \in LoadedNodes}

\* the statement of C23 for raw values whose maps are keyed by strings
KeysAreNodePathsOfStringKeyed ==
    (/\ ret.op = "Load" /\ ret.err = NoErr /\ defaults = EmptyMap
     /\ \A j \in 1 .. Len(readers) : StringKeyed(Read(readers[j]).data)
     /\ \A n \in LoadedNodes : n.segs[1] # "") =>
        BagToSet(KeysList) = {Join(n.segs) : n \in LoadedNodes}

\* an empty map, an empty sequence and a map key with dots each give one key
EmptyNodesLoaded ==
    /\ ret.op = "Load" /\ ret.err = NoErr /\ defaults = EmptyMap
    /\ readers = <<rEmpty>>
    /\ BagToSet(KeysList) = {"e", "e.m", "e.l", "e.x.y.z"}

\* C24: a step of WithReaders makes the list it is given the reader list,
\* whatever the list was, and changes neither overrides nor defaults; no
\* other step changes the list; and a Load invokes Read on readers of the
\* current list only, from its first on, in the order of the list.
C24_WithReadersReplaces ==
    [][/\ ret'.op = "WithReaders" =>
             /\ readers' = ret'.readers
             /\ UNCHANGED <<heap, storage, defaults>>
       /\ ret'.op # "WithReaders" => readers' = readers
       /\ ret'.op = "Load" =>
             /\ Len(ret'.reads) <= Len(readers)
             /\ \A n \in 1 .. Len(ret'.reads) : ret'.reads[n] = n
             /\ Len(ret'.events) = Len(ret'.reads)
             /\ \A n \in 1 .. Len(ret'.reads) :
                   ret'.events[n] = Read(readers[n]).events]_vars

\* WithReaders of rX and rY on a registry that has loaded the reader rScalar
\* of an earlier list: its key is still there
C24_Witness ==
    /\ ret.op = "WithReaders" /\ readers = <<rX, rY>>
    /\ DOMAIN Overrides = {"p"} /\ Overrides["p"] = data2

\* the entries of the map m other than the one of key
Others(m, key) == [k \in DOMAIN m \ {key} |-> m[k]]

\* C25: a step of Get, of Keys or of a typed accessor leaves the overrides,
\* the defaults, the reader list and the transform list as they were; a
\* step of SetDefault changes nothing but the entry of its key in the
\* defaults; a step of Set changes nothing but the entry of its key in the
\* overrides.
C25_Frame ==
    [][/\ ret'.op \in {"Get", "Keys"} \cup TypedGetters =>
             UNCHANGED <<heap, storage, defaults, readers, transformers>>
       /\ ret'.op = "SetDefault" =>
             /\ UNCHANGED <<heap, storage, readers, transformers>>
             /\ Others(defaults', ret'.key) = Others(defaults, ret'.key)
       /\ ret'.op = "Set" =>
             /\ UNCHANGED <<storage, defaults, readers, transformers>>
             /\ \A i \in MapIds \ {storage} : heap'[i] = heap[i]
             /\ Others(heap'[storage], ret'.key) = Others(Overrides, ret'.key)]_vars

\* Get of a key that has a default and no override, in a registry with an
\* override and a default of the other key, readers and a transform
C25_Witness ==
    /\ ret.op = "Get" /\ ret.key = "q" /\ ret.value = IntV(8)
    /\ DOMAIN Overrides = {"p"} /\ DOMAIN defaults = {"p", "q"}
    /\ readers # <<>> /\ transformers # <<>>

Loading == ~At("idle")

\* what Load has to return: the error of the first reader that fails, or nil
LoadResult ==
    IF \E i \in 1 .. Len(readers) : Read(readers[i]).err # NoErr
    THEN Read(readers[FirstFailing]).err ELSE NoErr

\* C26: a Load that has been called returns, and when it returns it returns
\* nil, or the error of the first reader that failed, with Read invoked once
\* on each reader up to that one and on no reader twice.
C26_LoadReturns ==
    /\ Loading ~> ~Loading
    /\ [][(Loading /\ ~Loading') =>
             /\ ret'.op = "Load"
             /\ ret'.err = LoadResult
             /\ \A n \in 1 .. Len(ret'.reads) : ret'.reads[n] = n
             /\ ret'.err = NoErr => Len(ret'.reads) = Len(readers)]_vars

\* Load has returned the error of the second reader of three, after the
\* stores of the first reader
C26_Witness ==
    /\ ~Loading /\ ret.op = "Load" /\ ret.err = errFake
    /\ readers = <<rX, rFail, rY>> /\ ret.reads = <<1, 2>>
    /\ DOMAIN Overrides = {"x", "x.a"}

\* C19 as stated: no key is twice in the list Keys returns.
C19_KeysOnce ==
    ret.op = "Keys" => \A key \in BagToSet(ret.keys) : CopiesIn(key, ret.keys) = 1

\* C19: the list Keys returns has a key once for each of the two maps that
\* holds it: twice when the key is overridden and has a default.
C19_KeysOncePerMap ==
    ret.op = "Keys" =>
        \A key \in BagToSet(ret.keys) \cup DOMAIN written.storage \cup DOMAIN written.defaults :
            CopiesIn(key, ret.keys) = (IF key \in DOMAIN written.storage THEN 1 ELSE 0)
                                      + (IF key \in DOMAIN written.defaults THEN 1 ELSE 0)

\* Keys of a registry where "p" is overridden and has a default
C19_Witness ==
    /\ ret.op = "Keys"
    /\ "p" \in DOMAIN written.storage \cap DOMAIN written.defaults
    /\ CopiesIn("p", ret.keys) = 2

\* the overrides a Load of the readers can leave in a registry made by New()
FreshLoads ==
    {out.m : out \in {o \in LoadLoop(1, [m |-> EmptyMap, err |-> NoErr, reads |-> <<>>,
                                          stores |-> <<>>, events |-> <<>>]) : o.err = NoErr}}

\* C20 as stated, for raw values whose maps are keyed by strings: the
\* overrides a successful Load leaves are the overrides every Load of the same
\* raw values into a new registry leaves, also when two paths of a value
\* make the same key.
C20_FlatteningDeterministic ==
    (/\ ret.op = "Load" /\ ret.err = NoErr
     /\ \A j \in 1 .. Len(readers) : StringKeyed(Read(readers[j]).data)) =>
        FreshLoads = {Overrides}

\* a call of goroutine t that has returned
Returned(t, ops) == th[t].pc = "done" /\ th[t].op \in ops

\* C7 as stated: a Get or Keys during which Reset is the only method another
\* goroutine ran that changes the maps returns what it would return on the
\* complete pre-reset overrides or on the empty overrides that replace them.
C7_NoPartialView ==
    \A t \in Threads :
        (Returned(t, {"Get", "Keys"}) /\ th[t].others = {"Reset"}) => th[t].atomic

\* C8 as stated: a Get, Set, SetDefault or Keys during which no goroutine ran
\* a step of Reset returns what it would return running alone at one instant
\* between its start and its return.
C8_IndividuallyAtomic ==
    \A t \in Threads :
        (Returned(t, {"Get", "Set", "SetDefault", "Keys"}) /\ "Reset" \notin th[t].others)
            => th[t].atomic

\* Tn(K, ... T1(K, v, c) ..., c) for the first i transformers
RECURSIVE Chain(_, _, _)
Chain(i, key, v) == IF i = 0 THEN v ELSE Transform(transformers[i], key, Chain(i - 1, key, v))

\* the value key resolves to
Stored(key) == IF key \in DOMAIN Overrides THEN Overrides[key]
               ELSE IF key \in DOMAIN defaults THEN defaults[key]
               ELSE Nil

\* C9: Get(K) returns Tn(K, ... T1(K, v, c) ..., c) for the value v that K
\* resolves to in the overrides or else the defaults; each transformer is
\* invoked once, in registration order, on the output of the one before it.
C9_TransformChain ==
    ret.op = "Get" =>
        LET n == Len(transformers)
        IN  /\ ret.value = Chain(n, ret.key, Stored(ret.key))
            /\ Len(ret.calls) = n
            /\ \A i \in 1 .. n :
                  /\ ret.calls[i].tr = transformers[i]
                  /\ ret.calls[i].key = ret.key
                  /\ ret.calls[i].in = Chain(i - 1, ret.key, Stored(ret.key))
                  /\ ret.calls[i].out = Chain(i, ret.key, Stored(ret.key))

\* a default that the second of two transformers changes
C9_Witness ==
    /\ ret.op = "Get"
    /\ transformers = <<"nilTransform", "testTransform">>
    /\ ret.key \notin DOMAIN Overrides /\ ret.key \in DOMAIN defaults
    /\ defaults[ret.key] = ToBeTransformed
    /\ ret.value = IntV(101)

Absent(key) == key \notin DOMAIN Overrides /\ key \notin DOMAIN defaults

ZeroValues(key) ==
    /\ GetString(key) = "" /\ GetBool(key) = FALSE
    /\ GetInt(key) = 0 /\ GetInt8(key) = 0 /\ GetInt16(key) = 0
    /\ GetInt32(key) = 0 /\ GetInt64(key) = 0
    /\ GetFloat32(key) = 0 /\ GetFloat64(key) = 0
    /\ GetTime(key) = ZeroTime /\ GetDuration(key) = 0

\* C10 as stated: whatever transforms are registered, Get of a key that is in
\* neither map returns nil and every typed getter its zero value.
C10_AbsentIsNil ==
    (ret.op = "Get" /\ Absent(ret.key)) => (ret.value = Nil /\ ZeroValues(ret.key))

\* C10: for a key that is in neither map, Get returns what the registered
\* transformers make of nil, which is nil when none is registered; every
\* typed getter returns a value, the zero value of its type whenever Get
\* returns nil.
C10_AbsentThroughTransformers ==
    \A key \in GetKeys :
        Absent(key) =>
            /\ GetRun(key).value = Chain(Len(transformers), key, Nil)
            /\ transformers = <<>> => GetRun(key).value = Nil
            /\ GetRun(key).value = Nil => ZeroValues(key)
            /\ (ret.op = "Get" /\ ret.key = key) => ret.value = GetRun(key).value

\* Get of a missing key with a transformer registered that leaves nil alone
C10_Witness ==
    /\ ret.op = "Get" /\ Absent(ret.key)
    /\ transformers = <<"testTransform">>
    /\ ret.value = Nil /\ ZeroValues(ret.key)

=============================================================================
